---- MODULE Spec2Model ----
(***************************************************************************)
(* State-machine model of src/src/index.ts: GitHubGraphQLClient (query,    *)
(* getPullRequestsWithCommentsSince, getAllPullRequestsWithCommentsSince)  *)
(* and GitHubPRAnalyzer (getPRSummary, groupByAuthor), run against a       *)
(* nondeterministic transport (node-fetch) and server.                     *)
(*                                                                         *)
(* Every async method call is a process.  It suspends at the two awaits of *)
(* query: `await fetch(...)` (pc = "fetch") and `await response.json()`    *)
(* (pc = "json").  The code that runs between two awaits is one action.    *)
(***************************************************************************)
EXTENDS Integers, Sequences, FiniteSets, TLC

VARIABLES
  construction,     \* the `new GitHubGraphQLClient(config)` that was run
  client,           \* the constructed GitHubGraphQLClient: token, baseUrl
  pc,               \* per call: "idle", "fetch", "json", "done", "beyond"
  method,           \* per call: the method the caller invoked
  args,             \* per call: the arguments the caller passed
  allPullRequests,  \* per call: local of getAllPullRequestsWithCommentsSince
  hasNextPage,      \* per call: local of getAllPullRequestsWithCommentsSince
  after,            \* per call: local of getAllPullRequestsWithCommentsSince
  response,         \* per call: local of query, the resolved fetch Response
  result,           \* per call: the promise handed to the caller
  sent,             \* per call: the fetch(url, init) invocations, in order
  received,         \* per call: what the transport settled them with, in order
  jsonCalls         \* per call: number of response.json() invocations

vars == <<construction, client, pc, method, args, allPullRequests, hasNextPage, after,
          response, result, sent, received, jsonCalls>>

-----------------------------------------------------------------------------
(* Bounds of the model *)

\* A paginating call is followed for at most MaxPages requests; a call that
\* loops further leaves the model through pc = "beyond".
MaxPages == 3

\* The pull request lists handed to the summary have at most MaxPRs entries.
MaxPRs == 2

-----------------------------------------------------------------------------
(* JavaScript values, as far as the code distinguishes them *)

Undefined == [type |-> "undefined"]
Null      == [type |-> "null"]
Num(n)    == [type |-> "number", num |-> n]
Str(s)    == [type |-> "string", str |-> s]
Bool(b)   == [type |-> "boolean", bool |-> b]
Arr(s)    == [type |-> "array", items |-> s]

\* ToBoolean, as applied by `!x`, `x && y` and `while (x)`.
Truthy(v) ==
  CASE v.type = "undefined" -> FALSE
    [] v.type = "null"      -> FALSE
    [] v.type = "number"    -> v.num # 0
    [] v.type = "string"    -> v.str # ""
    [] v.type = "boolean"   -> v.bool
    [] OTHER                -> TRUE

\* A function object, known by the text String(f) gives.
Fn(source) == [type |-> "function", source |-> source]

\* `a || b`
Or(a, b) == IF Truthy(a) THEN a ELSE b

\* ToString of a number, a string or a function.
ToStr(v) ==
  CASE v.type = "number"   -> ToString(v.num)
    [] v.type = "string"   -> v.str
    [] v.type = "function" -> v.source

\* `a + b`: addition of two numbers, concatenation otherwise.
Plus(a, b) ==
  IF a.type = "number" /\ b.type = "number" THEN Num(a.num + b.num)
  ELSE Str(ToStr(a) \o ToStr(b))

\* The properties every object literal inherits from Object.prototype, as
\* far as their names can be account logins.
ObjectPrototype ==
  [k \in {"constructor", "toString", "valueOf", "hasOwnProperty"} |->
     Fn("function " \o (IF k = "constructor" THEN "Object" ELSE k)
          \o "() { [native code] }")]

\* `obj[key]` on an object literal: own properties first, then inherited.
Get(obj, key) ==
  IF key \in DOMAIN obj THEN obj[key]
  ELSE IF key \in DOMAIN ObjectPrototype THEN ObjectPrototype[key]
  ELSE Undefined

\* Array.prototype.join on an array of strings.
RECURSIVE Join(_, _)
Join(strs, sep) ==
  IF strs = <<>> THEN ""
  ELSE IF Len(strs) = 1 THEN strs[1]
  ELSE strs[1] \o sep \o Join(Tail(strs), sep)

\* new Error(message), and the errors of the runtime and the transport.
Error(message) == [name |-> "Error", message |-> message]

\* The promise handed to the caller of an async method.
Pending      == [state |-> "pending"]
Fulfilled(v) == [state |-> "fulfilled", value |-> v]
Rejected(e)  == [state |-> "rejected", reason |-> e]

-----------------------------------------------------------------------------
(* Program constants *)

DefaultBaseUrl == "https://api.github.com/graphql"
UserAgent      == "GitHub-GraphQL-Client/1.0.0"

\* `first: number = 20` of getPullRequestsWithCommentsSince.
DefaultFirst == 20

\* The page size getAllPullRequestsWithCommentsSince passes as `first`.
AllPageSize == 100

\* The GraphQL document of getPullRequestsWithCommentsSince (a fixed text).
PullRequestsQuery == "query GetPullRequestsWithComments"

-----------------------------------------------------------------------------
(* The data the server can hold and the answers the transport can give *)

PR1 ==
  [id |-> "PR_1", number |-> 1, state |-> "OPEN", author |-> [login |-> "user1"],
   comments |-> [nodes |-> <<>>, totalCount |-> 2],
   reviewComments |-> [nodes |-> <<>>, totalCount |-> 1]]
PR2 ==
  [id |-> "PR_2", number |-> 2, state |-> "MERGED", author |-> [login |-> "user2"],
   comments |-> [nodes |-> <<>>, totalCount |-> 3],
   reviewComments |-> [nodes |-> <<>>, totalCount |-> 2]]
PR3 ==
  [id |-> "PR_3", number |-> 3, state |-> "CLOSED", author |-> [login |-> "user1"],
   comments |-> [nodes |-> <<>>, totalCount |-> 1],
   reviewComments |-> [nodes |-> <<>>, totalCount |-> 0]]

\* Pull requests as the summary distinguishes them: by state, author login and
\* the two comment collections, whose totalCount need not be the number of
\* nodes carried (the query asks for the first 100 of each).
Comment == [id |-> "IC_1", body |-> "Looks good", author |-> [login |-> "user2"]]

PullRequestStates == {"OPEN", "CLOSED", "MERGED"}

Logins == {"user1", "user2", "constructor"}

CommentLoads ==
  {[comments |-> [nodes |-> <<>>, totalCount |-> 0],
    reviewComments |-> [nodes |-> <<>>, totalCount |-> 0]],
   [comments |-> [nodes |-> <<Comment>>, totalCount |-> 1],
    reviewComments |-> [nodes |-> <<>>, totalCount |-> 2]],
   [comments |-> [nodes |-> <<Comment>>, totalCount |-> 150],
    reviewComments |-> [nodes |-> <<Comment, Comment>>, totalCount |-> 1]]}

PullRequest(state, login, load) ==
  [id |-> "PR_9", number |-> 9, state |-> state, author |-> [login |-> login],
   comments |-> load.comments, reviewComments |-> load.reviewComments]

PullRequests ==
  {PullRequest(st, lg, ld) :
     st \in PullRequestStates, lg \in Logins, ld \in CommentLoads}

PullRequestLists == UNION {[1..n -> PullRequests] : n \in 0..MaxPRs}

\* The node lists a page can carry.
NodeLists == {<<>>, <<PR1>>, <<PR3, PR2>>}

\* The values of pageInfo.endCursor (`endCursor?: string`).
EndCursors == {Undefined, Str("cursor1"), Str("cursor2")}

\* A value of type PullRequestsResponse.
PageData(nodes, hasNext, endCursor) ==
  [type |-> "object",
   repository |->
     [pullRequests |->
        [nodes |-> nodes,
         pageInfo |-> [hasNextPage |-> hasNext, endCursor |-> endCursor],
         totalCount |-> Len(nodes)]]]

Pages ==
  {PageData(n, h, e) : n \in NodeLists, h \in BOOLEAN, e \in EndCursors}

\* Payloads that are not pages: absent, null, the falsy scalars and an object
\* of another shape (the `data` of a custom query).
ViewerData  == [type |-> "object", viewer |-> [login |-> "testuser"]]
OtherData   == {Undefined, Null, Num(0), Str(""), Bool(FALSE), ViewerData}

\* The values of `errors` in a GraphQL envelope.
ErrorEntry(m) == [message |-> m]
NoErrors   == {Undefined, Null, Arr(<<>>)}
SomeErrors ==
  {Arr(<<ErrorEntry("Field not found")>>),
   Arr(<<ErrorEntry("Field not found"), ErrorEntry("Rate limited")>>),
   Arr(<<ErrorEntry("Rate limited"), ErrorEntry("Field not found")>>)}

\* GraphQLResponse<T>: what response.json() resolves to.
Envelope(data, errors) == [data |-> data, errors |-> errors]

SamplePages ==
  {PageData(<<PR1>>, TRUE, Str("cursor1")), PageData(<<PR3, PR2>>, FALSE, Undefined)}

Envelopes ==
  {Envelope(d, e) : d \in OtherData, e \in NoErrors \cup SomeErrors}
    \cup {Envelope(d, Undefined) : d \in Pages}
    \cup {Envelope(d, e) : d \in SamplePages, e \in {Null, Arr(<<>>)} \cup SomeErrors}

\* A response body: JSON text of an envelope, or text that is not JSON.
JsonBody(envelope) == [valid |-> TRUE, json |-> envelope]
InvalidBody        == [valid |-> FALSE]

\* A Response of the transport.  `ok` is true for the statuses 200..299.
Response(status, statusText, body) ==
  [ok |-> status >= 200 /\ status <= 299, status |-> status,
   statusText |-> statusText, body |-> body]

OkResponses ==
  {Response(200, "OK", JsonBody(e)) : e \in Envelopes}
    \cup {Response(200, "OK", InvalidBody)}

HttpErrorResponses ==
  {Response(401, "Unauthorized", JsonBody(e)) :
     e \in {Envelope(Undefined, Undefined),
            Envelope(ViewerData, Undefined),
            Envelope(Undefined, Arr(<<ErrorEntry("Bad credentials")>>)),
            Envelope(PageData(<<PR1>>, FALSE, Undefined),
                     Arr(<<ErrorEntry("Bad credentials")>>))}}
    \cup {Response(500, "Internal Server Error", InvalidBody)}

\* The values fetch can reject with (network-level failures).
TransportErrors ==
  {[name |-> "FetchError", message |-> "connect ECONNREFUSED"],
   [name |-> "FetchError", message |-> "network timeout"]}

\* How the transport settles one fetch promise.
Resolve(resp) == [settled |-> "resolved", response |-> resp]
Reject(err)   == [settled |-> "rejected", error |-> err]

Settlements ==
  {Resolve(r) : r \in OkResponses \cup HttpErrorResponses}
    \cup {Reject(e) : e \in TransportErrors}

-----------------------------------------------------------------------------
(* GitHubGraphQLClient.query, between its awaits *)

\* How a piece of code ends: `return value` or `throw error`.
Return(v) == [kind |-> "return", value |-> v]
Throw(e)  == [kind |-> "throw", error |-> e]

\* JSON.stringify of an object: properties whose value is undefined are
\* left out of the text.
Stringify(obj) ==
  [k \in {p \in DOMAIN obj : obj[p] # Undefined} |-> obj[k]]

\* The default `variables = {}` of query.
EmptyObject == [k \in {} |-> Undefined]

\* fetch(this.baseUrl, {method, headers, body}) as query invokes it.
FetchCall(cl, document, variables) ==
  [url     |-> cl.baseUrl,
   method  |-> "POST",
   headers |-> [Authorization |-> "Bearer " \o cl.token,
                ContentType   |-> "application/json",
                UserAgent     |-> UserAgent],
   body    |-> [query |-> document, variables |-> Stringify(variables)]]

\* `if (!response.ok) throw new Error(...)`: TRUE when query goes on to
\* response.json().
StatusAccepted(resp) == resp.ok

HttpError(resp) ==
  Error("HTTP " \o ToString(resp.status) \o ": " \o resp.statusText)

\* `result.errors && result.errors.length > 0`
HasErrors(envelope) ==
  Truthy(envelope.errors) /\ Len(envelope.errors.items) > 0

\* result.errors.map((err) => err.message)
ErrorMessages(errors) == [i \in 1..Len(errors) |-> errors[i].message]

GraphQLError(envelope) ==
  Error("GraphQL errors: " \o Join(ErrorMessages(envelope.errors.items), ", "))

NoDataError == Error("No data returned from GraphQL query")

\* The part of query that runs once response.json() has resolved.
\* Variants: data tested before errors; only an absent data rejected.
MutQueryResultDataFirst(envelope) ==
  IF Truthy(envelope.data) THEN Return(envelope.data)
  ELSE IF HasErrors(envelope) THEN Throw(GraphQLError(envelope))
  ELSE Throw(NoDataError)
MutQueryResultUndefinedOnly(envelope) ==
  IF HasErrors(envelope) THEN Throw(GraphQLError(envelope))
  ELSE IF envelope.data = Undefined THEN Throw(NoDataError)
  ELSE Return(envelope.data)
QueryResult(envelope) ==
  IF HasErrors(envelope) THEN Throw(GraphQLError(envelope))
  ELSE IF ~Truthy(envelope.data) THEN Throw(NoDataError)
  ELSE Return(envelope.data)

\* What response.json() rejects with when the body is not JSON.
JsonSyntaxError == [name |-> "SyntaxError", message |-> "Unexpected token"]

-----------------------------------------------------------------------------
(* getPullRequestsWithCommentsSince: the variables of its one query *)

\* Variant: the caller's `first` is not passed on.
MutPullRequestsVariablesFixedFirst(owner, repo, since, first, afterCursor) ==
  [owner |-> owner, repo |-> repo, since |-> since,
   first |-> Num(DefaultFirst), after |-> afterCursor]
PullRequestsVariables(owner, repo, since, first, afterCursor) ==
  [owner |-> owner, repo |-> repo, since |-> since,
   first |-> IF first = Undefined THEN Num(DefaultFirst) ELSE first,
   after |-> afterCursor]

\* The fetch that getAllPullRequestsWithCommentsSince causes for one page.
PageFetch(cl, a, afterCursor) ==
  FetchCall(cl, PullRequestsQuery,
            PullRequestsVariables(a.owner, a.repo, a.since,
                                  Num(AllPageSize), afterCursor))

\* Reading response.repository.pullRequests throws a TypeError when the
\* payload has no `repository`.
HasRepository(data) == data.type = "object" /\ "repository" \in DOMAIN data

PropertyTypeError ==
  [name |-> "TypeError",
   message |-> "Cannot read properties of undefined (reading 'pullRequests')"]

-----------------------------------------------------------------------------
(* GitHubPRAnalyzer *)

\* Variant: PRs in state MERGED are counted as CLOSED too.
RECURSIVE MutCountStateMergedIsClosed(_, _)
MutCountStateMergedIsClosed(prs, state) ==
  IF prs = <<>> THEN 0
  ELSE (IF \/ Head(prs).state = state
           \/ state = "CLOSED" /\ Head(prs).state = "MERGED"
        THEN 1 ELSE 0)
         + MutCountStateMergedIsClosed(Tail(prs), state)

\* Variant: the comments carried are counted instead of totalCount.
RECURSIVE MutSumCommentsNodes(_)
MutSumCommentsNodes(prs) ==
  IF prs = <<>> THEN 0
  ELSE Len(Head(prs).comments.nodes) + MutSumCommentsNodes(Tail(prs))

RECURSIVE CountState(_, _)
CountState(prs, state) ==
  IF prs = <<>> THEN 0
  ELSE (IF Head(prs).state = state THEN 1 ELSE 0) + CountState(Tail(prs), state)

RECURSIVE SumComments(_)
SumComments(prs) ==
  IF prs = <<>> THEN 0
  ELSE Head(prs).comments.totalCount + SumComments(Tail(prs))

RECURSIVE SumReviewComments(_)
SumReviewComments(prs) ==
  IF prs = <<>> THEN 0
  ELSE Head(prs).reviewComments.totalCount + SumReviewComments(Tail(prs))

\* The loop of groupByAuthor: grouped[author] = (grouped[author] || 0) + 1,
\* on an object literal, so the first read of a login finds what the object
\* inherits under that name.
RECURSIVE GroupInto(_, _)
GroupInto(grouped, prs) ==
  IF prs = <<>> THEN grouped
  ELSE LET author == Head(prs).author.login
           count  == Plus(Or(Get(grouped, author), Num(0)), Num(1))
       IN  GroupInto([k \in DOMAIN grouped \cup {author} |->
                        IF k = author THEN count ELSE grouped[k]],
                     Tail(prs))

groupByAuthor(prs) == GroupInto(EmptyObject, prs)

Summary(prs) ==
  [totalPRs            |-> Len(prs),
   openPRs             |-> CountState(prs, "OPEN"),
   closedPRs           |-> CountState(prs, "CLOSED"),
   mergedPRs           |-> CountState(prs, "MERGED"),
   totalComments       |-> SumComments(prs),
   totalReviewComments |-> SumReviewComments(prs),
   prsByAuthor         |-> groupByAuthor(prs)]

-----------------------------------------------------------------------------
(* Calls and their callers *)

\* The async method calls the model follows.
Calls == {"c1", "c2"}

\* The methods that run the pagination loop.
Paginating(m) == m \in {"getAllPullRequestsWithCommentsSince", "getPRSummary"}

RepoArgs ==
  {[owner |-> Str("facebook"), repo |-> Str("react"),
    since |-> Str("2023-01-01T00:00:00.000Z")],
   [owner |-> Str("microsoft"), repo |-> Str("vscode"),
    since |-> Str("2023-06-01T12:00:00.000Z")]}

\* What a caller can invoke, with which arguments.
Invocations ==
  {[method |-> "query",
    args |-> [query |-> "{ viewer { login } }", variables |-> Undefined]],
   [method |-> "query",
    args |-> [query |-> "query($owner: String!, $name: String!)",
              variables |-> [owner |-> Str("testowner"),
                             name |-> Str("test-repo")]]]}
    \cup {[method |-> "getPullRequestsWithCommentsSince",
           args |-> [owner |-> Str("owner"), repo |-> Str("repo"),
                     since |-> Str("2023-01-01T00:00:00Z"),
                     first |-> f, after |-> a]] :
            f \in {Undefined, Num(50)}, a \in {Undefined, Str("cursor123")}}
    \cup {[method |-> m, args |-> a] :
            m \in {"getAllPullRequestsWithCommentsSince", "getPRSummary"},
            a \in RepoArgs}

\* The client of the tests: new GitHubGraphQLClient({ token: "test-token" }).
TestClient == [token |-> "test-token", baseUrl |-> DefaultBaseUrl]

-----------------------------------------------------------------------------
(* GitHubGraphQLClient.constructor *)

\* `config: GitHubGraphQLClientConfig = {}`: an absent argument is {}.
NoConfig == [token |-> Undefined, baseUrl |-> Undefined]

ConfigOrDefault(config) == IF config = Undefined THEN NoConfig ELSE config

TokenRequiredError ==
  Error("GitHub token is required. Set GITHUB_TOKEN environment variable or pass token in config.")

\* new GitHubGraphQLClient(config) with process.env.GITHUB_TOKEN = envToken:
\* the object it returns, or the error it throws.
\* Variant: `??` in place of `||`, an empty config token is kept.
MutConstructorNullish(config, envToken) ==
  LET cfg     == ConfigOrDefault(config)
      token   == IF cfg.token # Undefined THEN cfg.token
                 ELSE IF envToken # Undefined THEN envToken ELSE Str("")
      baseUrl == Or(cfg.baseUrl, Str(DefaultBaseUrl))
  IN  IF ~Truthy(token) THEN Throw(TokenRequiredError)
      ELSE Return([token |-> token.str, baseUrl |-> baseUrl.str])
Constructor(config, envToken) ==
  LET cfg     == ConfigOrDefault(config)
      token   == Or(Or(cfg.token, envToken), Str(""))
      baseUrl == Or(cfg.baseUrl, Str(DefaultBaseUrl))
  IN  IF ~Truthy(token) THEN Throw(TokenRequiredError)
      ELSE Return([token |-> token.str, baseUrl |-> baseUrl.str])

\* The record of a construction: its inputs and how it ended.
Constructed(config, envToken) ==
  [config |-> config, env |-> envToken, outcome |-> Constructor(config, envToken)]

NotConstructed ==
  [config |-> Undefined, env |-> Undefined, outcome |-> [kind |-> "none"]]

\* beforeEach of the tests: { token: mockToken }, GITHUB_TOKEN not set.
TestConfig == [token |-> Str("test-token"), baseUrl |-> Undefined]

\* The arguments and the environments a construction can meet.
Configs ==
  {Undefined}
    \cup {[token |-> t, baseUrl |-> b] :
            t \in {Undefined, Str(""), Str("my-token")},
            b \in {Undefined, Str("https://github.enterprise.com/api/graphql")}}

EnvTokens == {Undefined, Str(""), Str("env-token")}

\* The fetch a call issues when it is invoked.
FirstFetch(cl, inv) ==
  CASE inv.method = "query" ->
         FetchCall(cl, inv.args.query,
                   IF inv.args.variables = Undefined THEN EmptyObject
                   ELSE inv.args.variables)
    [] inv.method = "getPullRequestsWithCommentsSince" ->
         FetchCall(cl, PullRequestsQuery,
                   PullRequestsVariables(inv.args.owner, inv.args.repo,
                                         inv.args.since, inv.args.first,
                                         inv.args.after))
    [] OTHER -> PageFetch(cl, inv.args, Undefined)

-----------------------------------------------------------------------------
(* The pagination loop of getAllPullRequestsWithCommentsSince *)

\* allPullRequests.push(...response.repository.pullRequests.nodes)
\* Variant: the page is put in front of the list.
MutPushAllFront(all, nodes) == nodes \o all
PushAll(all, nodes) == all \o nodes

\* hasNextPage = response.repository.pullRequests.pageInfo.hasNextPage
\* Variant: the loop goes on only when the page also carries a cursor.
MutNextHasNextPageNeedsCursor(page) ==
  page.pageInfo.hasNextPage /\ page.pageInfo.endCursor # Undefined
NextHasNextPage(page) == page.pageInfo.hasNextPage

\* after = response.repository.pullRequests.pageInfo.endCursor
\* Variant: the cursor is never advanced.
MutNextAfterNone(page) == Undefined
NextAfter(page) == page.pageInfo.endCursor

\* while (hasNextPage)
\* Variant: the loop ignores hasNextPage.
MutLoopContinuesAlways(hasNext) == TRUE
LoopContinues(hasNext) == hasNext

\* What the caller of method m gets when the loop returns `all`.
Returned(m, all) ==
  IF m = "getPRSummary" THEN Return(Summary(all)) ELSE Return(all)

-----------------------------------------------------------------------------
(* Actions *)

\* The state in which no call has been made yet.
NoCalls ==
  /\ pc = [c \in Calls |-> "idle"]
  /\ method = [c \in Calls |-> "none"]
  /\ args = [c \in Calls |-> Undefined]
  /\ allPullRequests = [c \in Calls |-> <<>>]
  /\ hasNextPage = [c \in Calls |-> FALSE]
  /\ after = [c \in Calls |-> Undefined]
  /\ response = [c \in Calls |-> Undefined]
  /\ result = [c \in Calls |-> Pending]
  /\ sent = [c \in Calls |-> <<>>]
  /\ received = [c \in Calls |-> <<>>]
  /\ jsonCalls = [c \in Calls |-> 0]

\* The state of the tests after beforeEach: the test client is constructed.
Init ==
  /\ construction = Constructed(TestConfig, Undefined)
  /\ client = TestClient
  /\ NoCalls

\* The state before any client exists.
InitUnconstructed ==
  /\ construction = NotConstructed
  /\ client = Undefined
  /\ NoCalls

\* new GitHubGraphQLClient(config) runs: synchronous, no transport request.
Construct(config, envToken) ==
  /\ construction = NotConstructed
  /\ construction' = Constructed(config, envToken)
  /\ client' = IF Constructor(config, envToken).kind = "return"
               THEN Constructor(config, envToken).value ELSE client
  /\ UNCHANGED <<pc, method, args, allPullRequests, hasNextPage, after,
                 response, result, sent, received, jsonCalls>>

\* One invocation of fetch, as the transport sees it.
IssueFetch(log, call) == Append(log, call)

\* The call's promise settles: the async method returned or threw.
Finish(c, outcome) ==
  /\ pc' = [pc EXCEPT ![c] = "done"]
  /\ result' = [result EXCEPT ![c] =
                  IF outcome.kind = "throw" THEN Rejected(outcome.error)
                  ELSE Fulfilled(outcome.value)]

\* Variant: a summary asked for again with the arguments of a call that has
\* returned one is answered with that call's summary, without a fetch.
MutInvokeCached(c, inv) ==
  LET hits == {d \in Calls : /\ method[d] = "getPRSummary"
                             /\ inv.method = "getPRSummary"
                             /\ args[d] = inv.args
                             /\ result[d].state = "fulfilled"}
  IN  /\ client # Undefined
      /\ pc[c] = "idle"
      /\ method' = [method EXCEPT ![c] = inv.method]
      /\ args' = [args EXCEPT ![c] = inv.args]
      /\ allPullRequests' = [allPullRequests EXCEPT ![c] = <<>>]
      /\ after' = [after EXCEPT ![c] = Undefined]
      /\ IF hits # {}
         THEN /\ pc' = [pc EXCEPT ![c] = "done"]
              /\ result' = [result EXCEPT ![c] = result[CHOOSE d \in hits : TRUE]]
              /\ hasNextPage' = [hasNextPage EXCEPT ![c] = FALSE]
              /\ sent' = sent
         ELSE /\ pc' = [pc EXCEPT ![c] = "fetch"]
              /\ result' = result
              /\ hasNextPage' = [hasNextPage EXCEPT ![c] = Paginating(inv.method)]
              /\ sent' = [sent EXCEPT ![c] = IssueFetch(@, FirstFetch(client, inv))]
      /\ UNCHANGED <<construction, client, response, received, jsonCalls>>

\* A caller invokes a method: the code runs up to `await fetch(...)`.
Invoke(c, inv) ==
  /\ client # Undefined
  /\ pc[c] = "idle"
  /\ pc' = [pc EXCEPT ![c] = "fetch"]
  /\ method' = [method EXCEPT ![c] = inv.method]
  /\ args' = [args EXCEPT ![c] = inv.args]
  /\ allPullRequests' = [allPullRequests EXCEPT ![c] = <<>>]
  /\ hasNextPage' = [hasNextPage EXCEPT ![c] = Paginating(inv.method)]
  /\ after' = [after EXCEPT ![c] = Undefined]
  /\ sent' = [sent EXCEPT ![c] = IssueFetch(@, FirstFetch(client, inv))]
  /\ UNCHANGED <<construction, client, response, result, received, jsonCalls>>

\* One pass through the body of `while (hasNextPage)` for the locals
\* `loc` = [all, hasNextPage, after], once the awaited page call has completed
\* with q.  A rejected await leaves the method with query's error; otherwise
\* the locals are updated and the loop condition is tested again.  `exit` is
\* the method's completion (Running while it loops on).
Running == [kind |-> "running"]

\* The method leaves the loop with `exit`; its locals stay as they are.
Leave(loc, exit) ==
  [all |-> loc.all, hasNextPage |-> loc.hasNextPage, after |-> loc.after,
   exit |-> exit]

\* `await this.getPullRequestsWithCommentsSince(...)` rejected with q: there
\* is no try/catch, the method throws what query threw.
\* Variant: the error is caught and the pages fetched so far are returned.
MutAwaitRejectedPartial(m, loc, q) == Leave(loc, Returned(m, loc.all))
AwaitRejected(m, loc, q) == Leave(loc, q)

LoopPass(m, loc, q) ==
  IF q.kind = "throw" THEN AwaitRejected(m, loc, q)
  ELSE IF ~HasRepository(q.value) THEN Leave(loc, Throw(PropertyTypeError))
  ELSE LET page == q.value.repository.pullRequests
           all  == PushAll(loc.all, page.nodes)
       IN  [all |-> all,
            hasNextPage |-> NextHasNextPage(page),
            after |-> NextAfter(page),
            exit |-> IF LoopContinues(NextHasNextPage(page)) THEN Running
                     ELSE Returned(m, all)]

\* query has completed with q (a Return or a Throw) inside call c: the code
\* that follows it up to the next `await fetch(...)` or to the call's end.
\* query itself and getPullRequestsWithCommentsSince hand q to their caller
\* (QueryDone); the paginating methods resume their loop (LoopResumes).
\* Variant: a failed query is sent once more.
MutQueryDoneRetry(c, q) ==
  IF q.kind = "throw" /\ Len(sent[c]) < 2
  THEN /\ sent' = [sent EXCEPT ![c] = IssueFetch(@, sent[c][1])]
       /\ pc' = [pc EXCEPT ![c] = "fetch"]
       /\ UNCHANGED <<allPullRequests, hasNextPage, after, result>>
  ELSE /\ Finish(c, q)
       /\ UNCHANGED <<allPullRequests, hasNextPage, after, sent>>
QueryDone(c, q) ==
  /\ Finish(c, q)
  /\ UNCHANGED <<allPullRequests, hasNextPage, after, sent>>

\* Variant: the accumulated list and the cursor are kept on the client, one
\* for all the calls in flight.
MutLoopResumesShared(c, q) ==
  LET loc  == [all |-> allPullRequests[c], hasNextPage |-> hasNextPage[c],
               after |-> after[c]]
      pass == LoopPass(method[c], loc, q)
  IN  /\ allPullRequests' = [d \in Calls |-> pass.all]
      /\ hasNextPage' = [hasNextPage EXCEPT ![c] = pass.hasNextPage]
      /\ after' = [d \in Calls |-> pass.after]
      /\ IF pass.exit # Running
         THEN /\ Finish(c, pass.exit)
              /\ UNCHANGED sent
         ELSE IF Len(sent[c]) < MaxPages
         THEN /\ sent' = [sent EXCEPT ![c] =
                    IssueFetch(@, PageFetch(client, args[c], pass.after))]
              /\ pc' = [pc EXCEPT ![c] = "fetch"]
              /\ UNCHANGED result
         ELSE /\ pc' = [pc EXCEPT ![c] = "beyond"]
              /\ UNCHANGED <<sent, result>>

LoopResumes(c, q) ==
  LET loc  == [all |-> allPullRequests[c], hasNextPage |-> hasNextPage[c],
               after |-> after[c]]
      pass == LoopPass(method[c], loc, q)
  IN  /\ allPullRequests' = [allPullRequests EXCEPT ![c] = pass.all]
      /\ hasNextPage' = [hasNextPage EXCEPT ![c] = pass.hasNextPage]
      /\ after' = [after EXCEPT ![c] = pass.after]
      /\ IF pass.exit # Running
         THEN /\ Finish(c, pass.exit)
              /\ UNCHANGED sent
         ELSE IF Len(sent[c]) < MaxPages
         THEN /\ sent' = [sent EXCEPT ![c] =
                    IssueFetch(@, PageFetch(client, args[c], pass.after))]
              /\ pc' = [pc EXCEPT ![c] = "fetch"]
              /\ UNCHANGED result
         ELSE /\ pc' = [pc EXCEPT ![c] = "beyond"]
              /\ UNCHANGED <<sent, result>>

AfterQuery(c, q) ==
  IF Paginating(method[c]) THEN LoopResumes(c, q) ELSE QueryDone(c, q)

\* The part of query between `await fetch(...)` and `await response.json()`,
\* for the settlement s of the fetch promise: query throws, or goes on to
\* await the body.
AwaitJson == [kind |-> "json"]

\* Variants: no status check; the transport error wrapped in a new Error.
MutAfterFetchNoStatusCheck(s) ==
  IF s.settled = "rejected" THEN Throw(s.error) ELSE AwaitJson
MutAfterFetchWrap(s) ==
  IF s.settled = "rejected"
  THEN Throw(Error("Network error: " \o s.error.message))
  ELSE IF ~StatusAccepted(s.response) THEN Throw(HttpError(s.response))
  ELSE AwaitJson
AfterFetch(s) ==
  IF s.settled = "rejected" THEN Throw(s.error)
  ELSE IF ~StatusAccepted(s.response) THEN Throw(HttpError(s.response))
  ELSE AwaitJson

\* The transport settles the fetch promise of call c with s.
FetchSettles(c, s) ==
  /\ pc[c] = "fetch"
  /\ received' = [received EXCEPT ![c] = Append(@, s)]
  /\ response' = [response EXCEPT ![c] =
                    IF s.settled = "resolved" THEN s.response ELSE @]
  /\ IF AfterFetch(s) = AwaitJson
     THEN /\ jsonCalls' = [jsonCalls EXCEPT ![c] = @ + 1]
          /\ pc' = [pc EXCEPT ![c] = "json"]
          /\ UNCHANGED <<allPullRequests, hasNextPage, after, result, sent>>
     ELSE /\ AfterQuery(c, AfterFetch(s))
          /\ UNCHANGED jsonCalls
  /\ UNCHANGED <<construction, client, method, args>>

\* The part of query that follows `await response.json()`.
AfterJson(body) ==
  IF body.valid THEN QueryResult(body.json) ELSE Throw(JsonSyntaxError)

\* response.json() settles: query resumes and completes.
JsonSettles(c) ==
  /\ pc[c] = "json"
  /\ AfterQuery(c, AfterJson(response[c].body))
  /\ UNCHANGED <<construction, client, method, args, response, received, jsonCalls>>

\* One call at a time, against every answer of the transport.
Solo == {"c1"}

Next ==
  \/ \E c \in Solo, inv \in Invocations : Invoke(c, inv)
  \/ \E c \in Solo, s \in Settlements : FetchSettles(c, s)
  \/ \E c \in Solo : JsonSettles(c)

Spec == Init /\ [][Next]_vars

-----------------------------------------------------------------------------
(* Vocabulary of the properties: what the server answered, read from the   *)
(* settlements themselves                                                  *)

IsGetAll(c) == method[c] = "getAllPullRequestsWithCommentsSince"

SuccessStatus(s) ==
  s.settled = "resolved" /\ s.response.status \in 200..299

HasEnvelope(s) == s.settled = "resolved" /\ s.response.body.valid

EnvelopeOf(s) == s.response.body.json

ErrorsAbsentOrEmpty(env) ==
  \/ env.errors \in {Undefined, Null}
  \/ env.errors.type = "array" /\ env.errors.items = <<>>

ErrorsNonEmpty(env) ==
  env.errors.type = "array" /\ env.errors.items # <<>>

DataAbsentOrNull(env) == env.data \in {Undefined, Null}

\* The settlement is a successful page of pull requests.
IsPage(s) ==
  /\ SuccessStatus(s)
  /\ HasEnvelope(s)
  /\ ErrorsAbsentOrEmpty(EnvelopeOf(s))
  /\ EnvelopeOf(s).data \in Pages

PageOf(s) == EnvelopeOf(s).data.repository.pullRequests

\* The nodes of a sequence of pages, page after page.
RECURSIVE ConcatNodes(_)
ConcatNodes(pages) ==
  IF pages = <<>> THEN <<>>
  ELSE PageOf(Head(pages)).nodes \o ConcatNodes(Tail(pages))

\* The call was served k >= 1 successful pages, the last of them the first
\* with hasNextPage = false.
ServedAllPages(c) ==
  LET k == Len(received[c])
  IN  /\ k >= 1
      /\ \A i \in 1..k : IsPage(received[c][i])
      /\ \A i \in 1..(k - 1) : PageOf(received[c][i]).pageInfo.hasNextPage
      /\ ~PageOf(received[c][k]).pageInfo.hasNextPage

-----------------------------------------------------------------------------
(* Properties of the pagination loop *)

\* C1: a getAllPullRequestsWithCommentsSince call that is served the pages
\* p1..pk, pk the first with hasNextPage = false, issues exactly k requests
\* and returns the nodes of p1..pk concatenated in page order; it issues no
\* request after pk, whatever endCursor pk carries.
PaginationReturnsAllPages ==
  \A c \in Calls :
    (IsGetAll(c) /\ ServedAllPages(c)) =>
      /\ Len(sent[c]) = Len(received[c])
      /\ \/ pc[c] = "json"
         \/ /\ pc[c] = "done"
            /\ result[c] = Fulfilled(ConcatNodes(received[c]))

PaginationReturnsAllPagesWitness ==
  \E c \in Calls :
    /\ IsGetAll(c) /\ ServedAllPages(c) /\ pc[c] = "done"
    /\ Len(received[c]) = 3
    /\ PageOf(received[c][3]).pageInfo.endCursor = Str("cursor2")
    /\ result[c] = Fulfilled(<<PR1, PR3, PR2, PR3, PR2>>)

\* The `after` variable a fetch carries in its body is `cursor`; an undefined
\* cursor is carried as no `after` at all.
CarriesAfter(call, cursor) ==
  LET v == call.body.variables
  IN  IF cursor = Undefined THEN "after" \notin DOMAIN v
      ELSE "after" \in DOMAIN v /\ v.after = cursor

\* C2: cursor chaining.  The first request of a
\* getAllPullRequestsWithCommentsSince call carries no `after`; every request
\* carries first = 100 and the caller's owner, repo and since; request i+1
\* carries as `after` the endCursor of the i-th page the call received.
CursorChaining ==
  \A c \in Calls :
    IsGetAll(c) =>
      /\ Len(sent[c]) >= 1
      /\ "after" \notin DOMAIN sent[c][1].body.variables
      /\ \A i \in 1..Len(sent[c]) :
           LET v == sent[c][i].body.variables
           IN  /\ DOMAIN v \subseteq {"owner", "repo", "since", "first", "after"}
               /\ v.first = Num(100)
               /\ v.owner = args[c].owner
               /\ v.repo = args[c].repo
               /\ v.since = args[c].since
      /\ \A i \in 1..(Len(sent[c]) - 1) :
           /\ i <= Len(received[c])
           /\ IsPage(received[c][i])
           /\ CarriesAfter(sent[c][i + 1], PageOf(received[c][i]).pageInfo.endCursor)

CursorChainingWitness ==
  \E c \in Calls :
    /\ IsGetAll(c)
    /\ Len(sent[c]) = 3
    /\ CarriesAfter(sent[c][2], Str("cursor1"))
    /\ CarriesAfter(sent[c][3], Str("cursor2"))
    /\ args[c].owner = Str("microsoft")

\* The failures of one request, as the server and the transport produce them.
TransportFailure(s) == s.settled = "rejected"

HttpFailure(s) == s.settled = "resolved" /\ s.response.status \notin 200..299

GraphQLFailure(s) ==
  SuccessStatus(s) /\ HasEnvelope(s) /\ ErrorsNonEmpty(EnvelopeOf(s))

NoDataFailure(s) ==
  /\ SuccessStatus(s) /\ HasEnvelope(s)
  /\ ErrorsAbsentOrEmpty(EnvelopeOf(s))
  /\ DataAbsentOrNull(EnvelopeOf(s))

IsFailure(s) ==
  TransportFailure(s) \/ HttpFailure(s) \/ GraphQLFailure(s) \/ NoDataFailure(s)

\* The error messages the specification gives for the failures.
RECURSIVE CommaList(_)
CommaList(items) ==
  IF Len(items) = 1 THEN items[1].message
  ELSE CommaList(SubSeq(items, 1, Len(items) - 1)) \o ", "
         \o items[Len(items)].message

ExpectedError(s) ==
  CASE TransportFailure(s) -> s.error
    [] HttpFailure(s) ->
         [name |-> "Error",
          message |-> "HTTP " \o ToString(s.response.status) \o ": "
                        \o s.response.statusText]
    [] GraphQLFailure(s) ->
         [name |-> "Error",
          message |-> "GraphQL errors: " \o CommaList(EnvelopeOf(s).errors.items)]
    [] NoDataFailure(s) ->
         [name |-> "Error", message |-> "No data returned from GraphQL query"]

\* C3: fail-fast, all-or-nothing pagination.  When the request for a page of
\* a getAllPullRequestsWithCommentsSince call fails, it is the call's last
\* request, and the call is rejected with that page's error: the caller gets
\* no list, whatever was accumulated from the earlier pages.
FailFast ==
  \A c \in Calls :
    IsGetAll(c) =>
      \A i \in 1..Len(received[c]) :
        IsFailure(received[c][i]) =>
          /\ i = Len(received[c])
          /\ Len(sent[c]) = i
          /\ IF pc[c] = "json" THEN SuccessStatus(received[c][i])
             ELSE /\ pc[c] = "done"
                  /\ result[c] = Rejected(ExpectedError(received[c][i]))

FailFastWitness ==
  \E c \in Calls :
    /\ IsGetAll(c) /\ pc[c] = "done"
    /\ Len(received[c]) = 3
    /\ GraphQLFailure(received[c][3])
    /\ EnvelopeOf(received[c][3]).data \in Pages
    /\ allPullRequests[c] = <<PR3, PR2, PR1>>
    /\ result[c] = Rejected([name |-> "Error",
                             message |-> "GraphQL errors: Rate limited, Field not found"])

-----------------------------------------------------------------------------
(* Scheduling: a fetch that was issued is eventually settled by the        *)
(* transport, and a continuation whose promise has settled is eventually   *)
(* run by the event loop.                                                  *)

\* A server with few answers, for the properties of whole behaviours: pages
\* that continue, pages that end the pagination, and one failure of each kind.
FewSettlements ==
  {Resolve(Response(200, "OK", JsonBody(Envelope(d, Undefined)))) :
     d \in {PageData(<<PR1>>, TRUE, Str("cursor1")),
            PageData(<<>>, TRUE, Undefined),
            PageData(<<PR3, PR2>>, FALSE, Str("cursor2")),
            PageData(<<>>, FALSE, Undefined),
            Undefined}}
    \cup {Resolve(Response(200, "OK",
            JsonBody(Envelope(PageData(<<PR1>>, TRUE, Str("cursor1")),
                              Arr(<<ErrorEntry("Rate limited")>>))))),
          Resolve(Response(500, "Internal Server Error", InvalidBody)),
          Reject([name |-> "FetchError", message |-> "network timeout"])}

FewInvocations ==
  {inv \in Invocations :
     \/ inv.method = "query"
     \/ Paginating(inv.method) /\ inv.args.owner = Str("facebook")}

FewNext ==
  \/ \E c \in Solo, inv \in FewInvocations : Invoke(c, inv)
  \/ \E c \in Solo, s \in FewSettlements : FetchSettles(c, s)
  \/ \E c \in Solo : JsonSettles(c)

Fairness ==
  \A c \in Solo :
    /\ WF_vars(\E s \in FewSettlements : FetchSettles(c, s))
    /\ WF_vars(JsonSettles(c))

FairSpec == Init /\ [][FewNext]_vars /\ Fairness

\* The last answer the call received ends the pagination: a failure, or a
\* page with hasNextPage = false.
LastAnswer(c) == received[c][Len(received[c])]

IsLastPage(s) == IsPage(s) /\ ~PageOf(s).pageInfo.hasNextPage

TerminalAnswer(c) ==
  /\ Len(received[c]) >= 1
  /\ IsFailure(LastAnswer(c)) \/ IsLastPage(LastAnswer(c))

\* C4: termination of getAllPullRequestsWithCommentsSince.  With every
\* request answered, a call that is answered with a failure or with a page
\* whose hasNextPage is false completes; and a call is fulfilled only by the
\* step that handles a received page whose hasNextPage is false.
PaginationTerminates ==
  /\ \A c \in Calls :
       [](IsGetAll(c) /\ TerminalAnswer(c) => <>(pc[c] = "done"))
  /\ [][\A c \in Calls :
          (IsGetAll(c) /\ result[c] = Pending /\ result'[c].state = "fulfilled")
            => /\ pc[c] = "json"
               /\ received'[c] = received[c]
               /\ IsLastPage(LastAnswer(c))]_vars

PaginationTerminatesWitness ==
  \E c \in Calls :
    /\ IsGetAll(c) /\ pc[c] = "done" /\ result[c].state = "fulfilled"
    /\ Len(received[c]) = 3
    /\ IsLastPage(LastAnswer(c))
    /\ PageOf(LastAnswer(c)).nodes = <<>>

-----------------------------------------------------------------------------
(* Properties of query *)

IsQuery(c) == method[c] = "query"

\* The call has its answer: the one settlement of its one fetch.
Answered(c) == Len(received[c]) = 1

Answer(c) == received[c][1]

\* C5: GraphQL errors take priority over data.  A response with success
\* status and a non-empty errors array makes query fail, also when the
\* envelope holds data, with the message "GraphQL errors: " followed by the
\* messages joined with ", " in the array's order.
GraphQLErrorsTakePriority ==
  \A c \in Calls :
    (IsQuery(c) /\ Answered(c) /\ GraphQLFailure(Answer(c))) =>
      \/ pc[c] = "json"
      \/ /\ pc[c] = "done"
         /\ result[c] =
              Rejected([name |-> "Error",
                        message |-> "GraphQL errors: "
                           \o CommaList(EnvelopeOf(Answer(c)).errors.items)])

GraphQLErrorsTakePriorityWitness ==
  \E c \in Calls :
    /\ IsQuery(c) /\ pc[c] = "done" /\ Answered(c)
    /\ SuccessStatus(Answer(c)) /\ HasEnvelope(Answer(c))
    /\ EnvelopeOf(Answer(c)) =
         Envelope(ViewerData, Arr(<<ErrorEntry("Field not found"),
                                    ErrorEntry("Rate limited")>>))
    /\ result[c] = Rejected([name |-> "Error",
                             message |-> "GraphQL errors: Field not found, Rate limited"])

\* C6: a non-success status makes query fail with "HTTP <status>:
\* <statusText>", whatever the body holds, and the body is never deserialized.
HttpStatusFailsFirst ==
  \A c \in Calls :
    (IsQuery(c) /\ Answered(c) /\ HttpFailure(Answer(c))) =>
      /\ pc[c] = "done"
      /\ jsonCalls[c] = 0
      /\ result[c] =
           Rejected([name |-> "Error",
                     message |-> "HTTP " \o ToString(Answer(c).response.status)
                                   \o ": " \o Answer(c).response.statusText])

HttpStatusFailsFirstWitness ==
  \E c \in Calls :
    /\ IsQuery(c) /\ pc[c] = "done" /\ Answered(c)
    /\ Answer(c).settled = "resolved"
    /\ Answer(c).response.status = 401
    /\ Answer(c).response.body.valid
    /\ Truthy(EnvelopeOf(Answer(c)).data)
    /\ ErrorsNonEmpty(EnvelopeOf(Answer(c)))
    /\ jsonCalls[c] = 0
    /\ result[c] = Rejected([name |-> "Error", message |-> "HTTP 401: Unauthorized"])

\* C7: success status, no errors (absent or empty) and data absent or null
\* make query fail with "No data returned from GraphQL query".
NoDataFails ==
  \A c \in Calls :
    (IsQuery(c) /\ Answered(c) /\ NoDataFailure(Answer(c))) =>
      \/ pc[c] = "json"
      \/ /\ pc[c] = "done"
         /\ result[c] =
              Rejected([name |-> "Error",
                        message |-> "No data returned from GraphQL query"])

NoDataFailsWitness ==
  \E c \in Calls :
    /\ IsQuery(c) /\ pc[c] = "done" /\ Answered(c)
    /\ SuccessStatus(Answer(c)) /\ HasEnvelope(Answer(c))
    /\ EnvelopeOf(Answer(c)) = Envelope(Null, Arr(<<>>))
    /\ result[c].state = "rejected"

\* C8: query succeeds exactly when the response has success status, errors
\* is absent or empty and data is neither absent nor null, and then returns
\* the envelope's data unchanged, for every data value.
QuerySucceedsExactlyWhen ==
  \A c \in Calls :
    (IsQuery(c) /\ pc[c] = "done" /\ Answered(c)
       /\ (TransportFailure(Answer(c)) \/ HasEnvelope(Answer(c)))) =>
      LET shouldSucceed ==
            /\ SuccessStatus(Answer(c))
            /\ ErrorsAbsentOrEmpty(EnvelopeOf(Answer(c)))
            /\ ~DataAbsentOrNull(EnvelopeOf(Answer(c)))
      IN  /\ (result[c].state = "fulfilled") <=> shouldSucceed
          /\ shouldSucceed => result[c] = Fulfilled(EnvelopeOf(Answer(c)).data)

\* C9: single attempt.  A call of query sends exactly one transport request,
\* whatever its outcome.
SingleAttempt ==
  \A c \in Calls :
    IsQuery(c) =>
      /\ Len(sent[c]) = 1
      /\ pc[c] \in {"fetch", "json", "done"}
      /\ pc[c] = "fetch" <=> received[c] = <<>>
      /\ pc[c] # "fetch" => Answered(c)

SingleAttemptWitness ==
  \E c \in Calls :
    /\ IsQuery(c) /\ pc[c] = "done" /\ Answered(c)
    /\ Answer(c).settled = "resolved" /\ Answer(c).response.status = 500
    /\ result[c].state = "rejected"
    /\ Len(sent[c]) = 1

\* C10: a transport-level failure reaches the caller unchanged.  When fetch
\* rejects, query, getPullRequestsWithCommentsSince,
\* getAllPullRequestsWithCommentsSince and getPRSummary are rejected with
\* exactly the value fetch rejected with.
TransportFailurePropagates ==
  \A c \in Calls :
    (Len(received[c]) >= 1 /\ TransportFailure(LastAnswer(c))) =>
      /\ pc[c] = "done"
      /\ result[c] = Rejected(LastAnswer(c).error)

TransportFailurePropagatesWitness ==
  \E c \in Calls :
    /\ method[c] = "getPRSummary" /\ pc[c] = "done"
    /\ Len(received[c]) = 3
    /\ allPullRequests[c] # <<>>
    /\ LastAnswer(c) = Reject([name |-> "FetchError", message |-> "network timeout"])
    /\ result[c] = Rejected([name |-> "FetchError", message |-> "network timeout"])

-----------------------------------------------------------------------------
(* Properties of construction *)

\* Construction and use of a client, against the small server.
ConstructNext ==
  \/ \E config \in Configs, envToken \in EnvTokens : Construct(config, envToken)
  \/ FewNext

ConstructSpec == InitUnconstructed /\ [][ConstructNext]_vars

\* The value is a non-empty string.
Supplied(v) == v.type = "string" /\ v.str # ""

ConfigToken(config) == IF config = Undefined THEN Undefined ELSE config.token

\* C11: construction fails with the token-required error exactly when neither
\* the config nor the environment supplies a non-empty token; a failed
\* construction leaves no client and no transport request; a constructed
\* client holds a non-empty token, the config's if it supplies one, else the
\* environment's.
TokenRequired ==
  LET cfgToken == ConfigToken(construction.config)
      envToken == construction.env
      outcome  == construction.outcome
  IN  outcome.kind # "none" =>
        /\ outcome.kind = "throw" <=> (~Supplied(cfgToken) /\ ~Supplied(envToken))
        /\ outcome.kind = "throw" =>
             /\ outcome.error =
                  [name |-> "Error",
                   message |-> "GitHub token is required. Set GITHUB_TOKEN environment variable or pass token in config."]
             /\ client = Undefined
             /\ \A c \in Calls : sent[c] = <<>> /\ pc[c] = "idle"
        /\ outcome.kind = "return" =>
             /\ client = outcome.value
             /\ client.token # ""
             /\ client.token = IF Supplied(cfgToken) THEN cfgToken.str
                               ELSE envToken.str

TokenRequiredWitness ==
  /\ construction.config # Undefined
  /\ construction.config.token = Str("")
  /\ construction.env = Str("")
  /\ construction.outcome.kind = "throw"

-----------------------------------------------------------------------------
(* Properties of getPullRequestsWithCommentsSince *)

IsGetPage(c) == method[c] = "getPullRequestsWithCommentsSince"

\* C12: a getPullRequestsWithCommentsSince call issues exactly one query,
\* whose variables are the caller's owner, repo, since, first (20 when not
\* given) and after (absent when not given), and it returns the page exactly
\* as the server sent it: nodes in their order, pageInfo and totalCount.
SinglePagePassThrough ==
  \A c \in Calls :
    IsGetPage(c) =>
      /\ Len(sent[c]) = 1
      /\ Len(received[c]) <= 1
      /\ sent[c][1].body.query = PullRequestsQuery
      /\ LET v == sent[c][1].body.variables
         IN  /\ {"owner", "repo", "since", "first"} \subseteq DOMAIN v
             /\ DOMAIN v \subseteq {"owner", "repo", "since", "first", "after"}
             /\ v.owner = args[c].owner
             /\ v.repo = args[c].repo
             /\ v.since = args[c].since
             /\ v.first = IF args[c].first = Undefined THEN Num(20)
                          ELSE args[c].first
             /\ CarriesAfter(sent[c][1], args[c].after)
      /\ (pc[c] = "done" /\ IsPage(Answer(c))) =>
           result[c] = Fulfilled(EnvelopeOf(Answer(c)).data)

SinglePagePassThroughWitness ==
  \E c \in Calls :
    /\ IsGetPage(c) /\ pc[c] = "done" /\ Answered(c)
    /\ args[c].first = Num(50) /\ args[c].after = Str("cursor123")
    /\ IsPage(Answer(c))
    /\ result[c] = Fulfilled(PageData(<<PR3, PR2>>, TRUE, Str("cursor1")))

-----------------------------------------------------------------------------
(* Properties of getPRSummary *)

\* A summary is asked for and the server answers with one last page that
\* holds any of the pull request lists.
SummaryInvocations == {inv \in Invocations : inv.method = "getPRSummary"}

SummarySettlements ==
  {Resolve(Response(200, "OK",
     JsonBody(Envelope(PageData(prs, FALSE, Undefined), Undefined)))) :
       prs \in PullRequestLists}

SummaryNext ==
  \/ \E c \in Solo, inv \in SummaryInvocations : Invoke(c, inv)
  \/ \E c \in Solo, s \in SummarySettlements : FetchSettles(c, s)
  \/ \E c \in Solo : JsonSettles(c)

SummarySpec == Init /\ [][SummaryNext]_vars

IsSummary(c) == method[c] = "getPRSummary"

\* The call returned a summary.
Summarised(c) ==
  IsSummary(c) /\ pc[c] = "done" /\ result[c].state = "fulfilled"

\* The list the summary was computed over: the nodes of the pages fetched.
Fetched(c) == ConcatNodes(received[c])

InState(prs, state) == {i \in DOMAIN prs : prs[i].state = state}

\* C13: totalPRs is the number of PRs fetched; openPRs, closedPRs and
\* mergedPRs are the numbers of PRs whose state is OPEN, CLOSED and MERGED;
\* the three add up to totalPRs, and all four are 0 for the empty list.
StateCounts ==
  \A c \in Calls :
    Summarised(c) =>
      LET prs == Fetched(c)
          s   == result[c].value
      IN  /\ s.totalPRs = Len(prs)
          /\ s.openPRs = Cardinality(InState(prs, "OPEN"))
          /\ s.closedPRs = Cardinality(InState(prs, "CLOSED"))
          /\ s.mergedPRs = Cardinality(InState(prs, "MERGED"))
          /\ s.openPRs + s.closedPRs + s.mergedPRs = s.totalPRs
          /\ prs = <<>> =>
               s.totalPRs = 0 /\ s.openPRs = 0 /\ s.closedPRs = 0
                 /\ s.mergedPRs = 0

StateCountsWitness ==
  \E c \in Calls :
    /\ Summarised(c)
    /\ Len(Fetched(c)) = 2
    /\ Fetched(c)[1].state = "MERGED" /\ Fetched(c)[2].state = "CLOSED"
    /\ result[c].value.closedPRs = 1 /\ result[c].value.mergedPRs = 1
    /\ result[c].value.openPRs = 0

\* The sum of a sequence of numbers.
RECURSIVE Total(_)
Total(ns) == IF ns = <<>> THEN 0 ELSE Head(ns) + Total(Tail(ns))

\* C14: totalComments is the sum of comments.totalCount over the PRs fetched
\* and totalReviewComments the sum of reviewComments.totalCount, whatever
\* number of comment nodes each PR carries.
CommentTotals ==
  \A c \in Calls :
    Summarised(c) =>
      LET prs == Fetched(c)
          s   == result[c].value
      IN  /\ s.totalComments =
               Total([i \in DOMAIN prs |-> prs[i].comments.totalCount])
          /\ s.totalReviewComments =
               Total([i \in DOMAIN prs |-> prs[i].reviewComments.totalCount])

CommentTotalsWitness ==
  \E c \in Calls :
    /\ Summarised(c)
    /\ Len(Fetched(c)) = 2
    /\ Fetched(c)[1].comments.totalCount = 150
    /\ Len(Fetched(c)[1].comments.nodes) = 1
    /\ Fetched(c)[2].comments.totalCount = 1
    /\ Fetched(c)[2].reviewComments = [nodes |-> <<>>, totalCount |-> 2]
    /\ result[c].value.totalComments = 151
    /\ result[c].value.totalReviewComments = 3

ByLogin(prs, login) == {i \in DOMAIN prs : prs[i].author.login = login}

LoginsOf(prs) == {prs[i].author.login : i \in DOMAIN prs}

\* The sum of the counts a mapping holds under the given keys.
RECURSIVE SumValues(_, _)
SumValues(by, keys) ==
  IF keys = {} THEN 0
  ELSE LET k == CHOOSE x \in keys : TRUE
       IN  by[k].num + SumValues(by, keys \ {k})

\* C15: the keys of prsByAuthor are the author logins that occur in the list
\* fetched and each key maps to the number of PRs with that login, a number
\* that is at least 1; the numbers add up to totalPRs, and the mapping is
\* empty for the empty list.
AuthorCounts ==
  \A c \in Calls :
    Summarised(c) =>
      LET prs == Fetched(c)
          by  == result[c].value.prsByAuthor
      IN  /\ DOMAIN by = LoginsOf(prs)
          /\ \A k \in DOMAIN by :
               by[k] = Num(Cardinality(ByLogin(prs, k))) /\ by[k].num >= 1
          /\ SumValues(by, DOMAIN by) = result[c].value.totalPRs
          /\ prs = <<>> => by = EmptyObject

\* Two summaries asked for one after the other: the second call is made when
\* the first has completed.  The server answers with a page that continues,
\* with last pages of different content, or with a failure.
SuccessiveSettlements ==
  {Resolve(Response(200, "OK", JsonBody(Envelope(d, Undefined)))) :
     d \in {PageData(<<PR1>>, TRUE, Str("cursor1")),
            PageData(<<PR1>>, FALSE, Undefined),
            PageData(<<PR3, PR2>>, FALSE, Undefined)}}
    \cup {Resolve(Response(500, "Internal Server Error", InvalidBody)),
          Reject([name |-> "FetchError", message |-> "network timeout"])}

SuccessiveNext ==
  \/ \E c \in Calls, inv \in SummaryInvocations :
       /\ \A d \in Calls \ {c} : pc[d] \in {"idle", "done"}
       /\ Invoke(c, inv)
  \/ \E c \in Calls, s \in SuccessiveSettlements : FetchSettles(c, s)
  \/ \E c \in Calls : JsonSettles(c)

SuccessiveSpec == Init /\ [][SuccessiveNext]_vars

\* C16: a getPRSummary call makes one auto-paginating fetch with the caller's
\* owner, repo and since (one walk through the pages, from a request without
\* cursor), also when an earlier call has returned a summary for the same
\* arguments; its summary is that of the list this walk fetched, so equal
\* lists give equal summaries; and when a page request fails the call is
\* rejected with that failure's error and yields no summary.
FreshFetchPerSummary ==
  /\ \A c \in Calls :
       IsSummary(c) =>
         /\ Len(sent[c]) >= 1
         /\ Len(sent[c]) <= Len(received[c]) + 1
         /\ CarriesAfter(sent[c][1], Undefined)
         /\ \A i \in 1..Len(sent[c]) :
              LET v == sent[c][i].body.variables
              IN  /\ sent[c][i].body.query = PullRequestsQuery
                  /\ v.owner = args[c].owner
                  /\ v.repo = args[c].repo
                  /\ v.since = args[c].since
         /\ \A i \in 2..Len(sent[c]) :
              /\ IsPage(received[c][i - 1])
              /\ PageOf(received[c][i - 1]).pageInfo.hasNextPage
         /\ pc[c] = "done" =>
              /\ Len(sent[c]) = Len(received[c])
              /\ IF IsFailure(LastAnswer(c))
                 THEN result[c] = Rejected(ExpectedError(LastAnswer(c)))
                 ELSE /\ IsLastPage(LastAnswer(c))
                      /\ result[c] = Fulfilled(Summary(Fetched(c)))
  /\ \A c, d \in Calls :
       (Summarised(c) /\ Summarised(d) /\ Fetched(c) = Fetched(d))
         => result[c] = result[d]

FreshFetchPerSummaryWitness ==
  /\ Summarised("c1") /\ Summarised("c2")
  /\ args["c1"] = args["c2"]
  /\ Fetched("c1") = <<PR1>>
  /\ Fetched("c2") = <<PR1, PR3, PR2>>
  /\ result["c1"].value.totalPRs = 1
  /\ result["c2"].value.totalPRs = 3

-----------------------------------------------------------------------------
(* Properties of calls in flight together *)

\* Two getAllPullRequestsWithCommentsSince calls on the one client, their
\* steps interleaved in any order; the server answers each request with a
\* page that continues, a page that ends the pagination, or a failure.
InterleavedInvocations ==
  {inv \in Invocations : inv.method = "getAllPullRequestsWithCommentsSince"}

InterleavedSettlements ==
  {Resolve(Response(200, "OK", JsonBody(Envelope(d, Undefined)))) :
     d \in {PageData(<<PR1>>, TRUE, Str("cursor1")),
            PageData(<<PR3, PR2>>, TRUE, Str("cursor2")),
            PageData(<<PR3, PR2>>, FALSE, Undefined)}}
    \cup {Resolve(Response(500, "Internal Server Error", InvalidBody))}

InterleavedNext ==
  \/ \E c \in Calls, inv \in InterleavedInvocations : Invoke(c, inv)
  \/ \E c \in Calls, s \in InterleavedSettlements : FetchSettles(c, s)
  \/ \E c \in Calls : JsonSettles(c)

InterleavedSpec == Init /\ [][InterleavedNext]_vars

\* The requests of the call that have no answer yet.
Outstanding(c) == Len(sent[c]) - Len(received[c])

\* What the call returns when it runs alone and is served these answers.
AloneResult(answers) ==
  IF IsFailure(answers[Len(answers)])
  THEN Rejected(ExpectedError(answers[Len(answers)]))
  ELSE Fulfilled(ConcatNodes(answers))

\* C17: a getAllPullRequestsWithCommentsSince call has at most one request
\* outstanding; when it issues the request for the next page it has received
\* the pages before and holds their nodes; and with calls interleaved on the
\* one client each call's list and cursor follow its own pages only, so that
\* it returns what it returns alone against the same answers.
OneRequestAtATime ==
  \A c \in Calls :
    IsGetAll(c) =>
      /\ Outstanding(c) \in {0, 1}
      /\ Outstanding(c) = 1 <=> pc[c] = "fetch"
      /\ pc[c] = "fetch" =>
           /\ \A i \in 1..Len(received[c]) :
                IsPage(received[c][i])
                  /\ PageOf(received[c][i]).pageInfo.hasNextPage
           /\ allPullRequests[c] = ConcatNodes(received[c])
           /\ Len(received[c]) >= 1 =>
                /\ after[c] = PageOf(LastAnswer(c)).pageInfo.endCursor
                /\ CarriesAfter(sent[c][Len(sent[c])], after[c])
      /\ pc[c] = "done" => result[c] = AloneResult(received[c])

OneRequestAtATimeWitness ==
  /\ IsGetAll("c1") /\ IsGetAll("c2")
  /\ pc["c1"] = "fetch" /\ Len(received["c1"]) = 2
  /\ allPullRequests["c1"] = <<PR1, PR3, PR2>>
  /\ after["c1"] = Str("cursor2")
  /\ pc["c2"] = "fetch" /\ Len(received["c2"]) = 1
  /\ allPullRequests["c2"] = <<PR1>>
  /\ after["c2"] = Str("cursor1")

-----------------------------------------------------------------------------
(* Properties of a pagination that does not end *)

\* The answer is a successful page that announces a next page and carries no
\* endCursor.
Endless(s) ==
  /\ IsPage(s)
  /\ PageOf(s).pageInfo.hasNextPage
  /\ PageOf(s).pageInfo.endCursor = Undefined

\* C18: hasNextPage alone drives the loop.  A successful page with
\* hasNextPage = true and no endCursor neither completes nor fails a
\* getAllPullRequestsWithCommentsSince call: the request that follows it
\* carries no `after` and equals the call's first request.  No count of pages
\* ends the loop: with every request answered, each such answer is followed
\* by a further request, as far as the model follows the call, and the call
\* is still pending then.
LoopsWithoutCursor ==
  /\ [](\A c \in Calls :
          IsGetAll(c) =>
            /\ \A i \in 1..Len(received[c]) :
                 (Endless(received[c][i]) /\ i < Len(sent[c])) =>
                   /\ CarriesAfter(sent[c][i + 1], Undefined)
                   /\ sent[c][i + 1] = sent[c][1]
            /\ (Len(received[c]) >= 1 /\ Endless(LastAnswer(c))) =>
                 /\ result[c] = Pending
                 /\ pc[c] \in {"json", "fetch", "beyond"})
  /\ \A c \in Calls : \A k \in 1..MaxPages :
       (IsGetAll(c) /\ Len(received[c]) = k /\ Endless(LastAnswer(c)))
         ~> (/\ result[c] = Pending
             /\ \/ Len(sent[c]) = k + 1
                \/ pc[c] = "beyond")

LoopsWithoutCursorWitness ==
  \E c \in Calls :
    /\ IsGetAll(c) /\ pc[c] = "fetch" /\ result[c] = Pending
    /\ Len(sent[c]) = 3 /\ Len(received[c]) = 2
    /\ Endless(received[c][1]) /\ Endless(received[c][2])
    /\ sent[c][2] = sent[c][1] /\ sent[c][3] = sent[c][1]

====
